---- MODULE Spec2Model ----
(***************************************************************************)
(* Model of the mcp-miro server: startup (credential selection), the       *)
(* MiroClient HTTP wrapper and the request handlers registered on the MCP  *)
(* server (resources/list, resources/read, tools/call).                    *)
(*                                                                         *)
(* Strings are sequences of tokens; a template literal is the              *)
(* concatenation of its literal tokens and its interpolated values.        *)
(* A JavaScript object is a function whose domain is the set of keys that  *)
(* are present: a key whose value is undefined is absent, which is also    *)
(* what JSON.stringify sends.                                              *)
(***************************************************************************)
EXTENDS Integers, Sequences, FiniteSets, TLC

VARIABLES
    argvToken,   \* value of --token on the command line
    envToken,    \* value of MIRO_OAUTH_TOKEN in the environment
    oauthToken,  \* the module constant oauthToken
    miroClient,  \* the MiroClient instance: <<>> before construction
    handlers,    \* the request handlers registered on the server
    phase,       \* "boot", "connecting", "running" or "exited"
    exitCode,    \* the code given to process.exit
    calls        \* the inbound requests, by order of arrival

vars == <<argvToken, envToken, oauthToken, miroClient, handlers, phase, exitCode, calls>>

-----------------------------------------------------------------------------
(* Bounds of the model *)

\* number of inbound requests the transport delivers in one run
MaxCalls == 2
\* longest board listing the remote service answers with
MaxBoards == 2

(* Program constants *)
MinItems == 1
MaxItems == 20
DefaultX == 0
DefaultY == 0
DefaultWidth == 200
DefaultHeight == 200
DefaultRotation == 0
ExitFailure == 1
PageLimit == 50

-----------------------------------------------------------------------------
(* Strings *)

\* the empty object {} / the empty string
Empty == <<>>

\* s occurs in t as a contiguous run of tokens (String.prototype.includes)
Contains(t, s) ==
    \E i \in 0..(Len(t) - Len(s)) : SubSeq(t, i + 1, i + Len(s)) = s

StartsWith(t, s) == Len(s) <= Len(t) /\ SubSeq(t, 1, Len(s)) = s

\* `${v}` of a number
NumStr(n) == <<ToString(n)>>

\* `${o.k}` of a string-valued property: "undefined" when the key is absent
PropStr(o, k) == IF k \in DOMAIN o THEN o[k] ELSE <<"undefined">>

\* { k2: o.k } as JSON.stringify sends it: the key is dropped when o.k is undefined
Field(k2, o, k) == IF k \in DOMAIN o THEN (k2 :> o[k]) ELSE Empty

\* the value of o.k, or d when o.k is undefined (destructuring default)
Default(o, k, d) == IF k \in DOMAIN o THEN o[k] ELSE d

-----------------------------------------------------------------------------
(* Startup: src/unnamed/part_001 lines 7-23 *)

Absent == "<absent>"
Unset == "<unset>"

\* JavaScript truthiness of an optional string
Truthy(s) == s # Absent /\ s # ""

\* mutant: the environment variable takes precedence over the flag
SelectTokenEnvFirst(flag, env) == IF Truthy(env) THEN env ELSE flag

\* (argv.token as string) || process.env.MIRO_OAUTH_TOKEN
SelectToken(flag, env) == IF Truthy(flag) THEN flag ELSE env

FlagValues == {Absent, "", "tokA"}
EnvValues == {Absent, "", "tokB"}

-----------------------------------------------------------------------------
(* HTTP: requests sent with fetch and the responses of the remote service *)

BaseUrl == <<"https://api.miro.com/v2">>

Headers(token) ==
    [Authorization |-> <<"Bearer ", token>>, ContentType |-> <<"application/json">>]

\* response.ok
Ok(resp) == resp.status >= 200 /\ resp.status <= 299

\* what an awaited call evaluates to: a value, or a thrown Error
Return(v) == [threw |-> FALSE, value |-> v]
Throw(msg) == [threw |-> TRUE, message |-> msg]

\* response.json(): the parsed body, or a SyntaxError when the body is no JSON
\* (resp.body is <<>> for a body that is not JSON, <<v>> for the JSON value v)
ResponseJson(resp) ==
    IF resp.body = <<>>
    THEN Throw(<<"Unexpected token < in JSON at position 0">>)
    ELSE Return(resp.body[1])

-----------------------------------------------------------------------------
(* MiroClient: each method is the request it sends (up to its await) and    *)
(* what it evaluates to once the response has arrived.                      *)

\* fetchApi, up to the await: the one request it sends
FetchApiRequest(token, path, options) ==
    [url |-> BaseUrl \o path,
     method |-> Default(options, "method", <<"GET">>),
     headers |-> Headers(token)]
    @@ (IF "body" \in DOMAIN options THEN ("body" :> options.body) ELSE Empty)

\* fetchApi, after the await
FetchApiResult(resp) ==
    IF ~Ok(resp)
    THEN Throw(<<"Miro API error: ">> \o NumStr(resp.status) \o <<" ">> \o resp.statusText)
    ELSE ResponseJson(resp)

\* the data property of a parsed listing, when fetchApi returned one
DataOf(r) == IF r.threw THEN r ELSE Return(r.value.data)

GetBoardsRequest(token) == FetchApiRequest(token, <<"/boards">>, Empty)
GetBoardsResult(resp) == DataOf(FetchApiResult(resp))

GetBoardItemsRequest(token, boardId) ==
    FetchApiRequest(token, <<"/boards/">> \o boardId \o <<"/items?limit=50">>, Empty)
GetBoardItemsResult(resp) == DataOf(FetchApiResult(resp))

CreateStickyNoteRequest(token, boardId, data) ==
    FetchApiRequest(token, <<"/boards/">> \o boardId \o <<"/sticky_notes">>,
                    [method |-> <<"POST">>, body |-> data])
CreateStickyNoteResult(resp) == FetchApiResult(resp)

\* mutant: the bulk request is sent without the Authorization header
BulkCreateItemsRequestNoAuth(token, boardId, items) ==
    [url |-> BaseUrl \o <<"/boards/">> \o boardId \o <<"/items/bulk">>,
     method |-> <<"POST">>,
     headers |-> [ContentType |-> <<"application/json">>],
     body |-> items]

\* bulkCreateItems calls fetch itself
BulkCreateItemsRequest(token, boardId, items) ==
    [url |-> BaseUrl \o <<"/boards/">> \o boardId \o <<"/items/bulk">>,
     method |-> <<"POST">>,
     headers |-> Headers(token),
     body |-> items]

BulkCreateItemsResult(resp) ==
    IF ~Ok(resp)
    THEN LET error == ResponseJson(resp) IN
         IF error.threw THEN error
         ELSE Throw(<<"Miro API error: ">> \o
                    (IF "message" \in DOMAIN error.value /\ error.value.message # Empty
                     THEN error.value.message ELSE resp.statusText))
    ELSE LET result == ResponseJson(resp) IN
         IF result.threw THEN result
         ELSE Return(Default(result.value, "data", <<>>))

GetFramesRequest(token, boardId) ==
    FetchApiRequest(token, <<"/boards/">> \o boardId \o <<"/items?type=frame&limit=50">>, Empty)
GetFramesResult(resp) == DataOf(FetchApiResult(resp))

GetItemsInFrameRequest(token, boardId, frameId) ==
    FetchApiRequest(token,
        <<"/boards/">> \o boardId \o <<"/items?parent_item_id=">> \o frameId
            \o <<"&limit=">> \o NumStr(PageLimit),
        Empty)
GetItemsInFrameResult(resp) == DataOf(FetchApiResult(resp))

CreateShapeRequest(token, boardId, data) ==
    FetchApiRequest(token, <<"/boards/">> \o boardId \o <<"/shapes">>,
                    [method |-> <<"POST">>, body |-> data])
CreateShapeResult(resp) == FetchApiResult(resp)

-----------------------------------------------------------------------------
(* Serialisation and URL parsing used by the handlers *)

\* the keys of an item, in the order the remote service reports them
ItemKeys == <<"id", "type", "parent">>

RECURSIVE JsonObject(_, _)
\* JSON.stringify of one item: its present keys, in order
JsonObject(o, keys) ==
    IF keys = <<>> THEN <<>>
    ELSE (IF Head(keys) \in DOMAIN o THEN <<Head(keys), ":">> \o o[Head(keys)] \o <<",">> ELSE <<>>)
         \o JsonObject(o, Tail(keys))

RECURSIVE JsonArray(_)
\* JSON.stringify(items, null, 2)
JsonArray(items) ==
    IF items = <<>> THEN <<>>
    ELSE <<"{">> \o JsonObject(Head(items), ItemKeys) \o <<"}">> \o JsonArray(Tail(items))

JsonStringify(items) == <<"[">> \o JsonArray(items) \o <<"]">>

Schemes == {"miro:", "http:"}

RECURSIVE UpToQuery(_)
\* the tokens of a path before its query or fragment
UpToQuery(t) ==
    IF t = <<>> \/ Head(t) \in {"?", "#"} THEN <<>> ELSE <<Head(t)>> \o UpToQuery(Tail(t))

\* new URL(uri): throws unless uri starts with a scheme; with an authority
\* ("//" host) the pathname is what follows the host
ParseUrl(uri) ==
    IF uri = <<>> \/ Head(uri) \notin Schemes
    THEN Throw(<<"Invalid URL">>)
    ELSE IF Len(uri) >= 3 /\ uri[2] = "//"
         THEN Return([pathname |-> UpToQuery(SubSeq(uri, 4, Len(uri)))])
         ELSE Return([pathname |-> UpToQuery(Tail(uri))])

\* s.substring(1) of a pathname, whose first character is its first token
Substring1(path) == IF path = <<>> THEN <<>> ELSE Tail(path)

ResourcePrefix == <<"miro:", "//", "board", "/">>

-----------------------------------------------------------------------------
(* Request handlers. A handler runs to its await (Start: the request it     *)
(* sends, or the error it throws before sending one) and resumes when the   *)
(* response has arrived (Finish: what it returns or throws).                *)

Send(http) == [threw |-> FALSE, http |-> http]

Text(t) == [type |-> "text", text |-> t]

\* ListResourcesRequestSchema handler
ListResourcesStart(token) == Send(GetBoardsRequest(token))

ResourceOf(board) ==
    [uri |-> ResourcePrefix \o board.id,
     mimeType |-> <<"application/json">>,
     name |-> board.name,
     description |-> IF "description" \in DOMAIN board /\ board.description # Empty
                     THEN board.description
                     ELSE <<"Miro board: ">> \o board.name]

ListResourcesFinish(resp) ==
    LET boards == GetBoardsResult(resp) IN
    IF boards.threw THEN boards
    ELSE Return([resources |-> [i \in 1..Len(boards.value) |-> ResourceOf(boards.value[i])]])

\* ReadResourceRequestSchema handler
ReadResourceStart(token, uri) ==
    LET url == ParseUrl(uri) IN
    IF url.threw THEN url
    ELSE IF ~StartsWith(uri, ResourcePrefix)
    THEN Throw(<<"Invalid Miro resource URI - must start with miro://board/">>)
    ELSE Send(GetBoardItemsRequest(token, Substring1(url.value.pathname)))

ReadResourceFinish(uri, resp) ==
    LET items == GetBoardItemsResult(resp) IN
    IF items.threw THEN items
    ELSE Return([contents |-> <<[uri |-> uri,
                                 mimeType |-> <<"application/json">>,
                                 text |-> JsonStringify(items.value)]>>])

\* CallToolRequestSchema handler -------------------------------------------

\* destructuring request.params.arguments throws when there are none
NoArguments == Throw(<<"Cannot destructure property of undefined">>)

HasArguments(req) == "arguments" \in DOMAIN req

\* mutant: the defaults of color, x and y are not applied
StickyNoteBodyNoDefaults(a) ==
    [data |-> Field("content", a, "content"),
     style |-> Field("fillColor", a, "color"),
     position |-> Field("x", a, "x") @@ Field("y", a, "y")]

\* case "create_sticky_note": the body given to createStickyNote
StickyNoteBody(a) ==
    [data |-> Field("content", a, "content"),
     style |-> [fillColor |-> Default(a, "color", <<"yellow">>)],
     position |-> [x |-> Default(a, "x", DefaultX), y |-> Default(a, "y", DefaultY)]]

\* case "create_shape": the body given to createShape
ShapeBody(a) ==
    [data |-> Field("shape", a, "shape") @@ Field("content", a, "content"),
     style |-> Default(a, "style", Empty),
     position |-> Default(a, "position", [x |-> DefaultX, y |-> DefaultY]),
     geometry |-> Default(a, "geometry",
                          [width |-> DefaultWidth, height |-> DefaultHeight,
                           rotation |-> DefaultRotation])]

\* mutant: an unknown tool name is silently ignored
UnknownToolIgnored == Return([content |-> <<>>])

\* default: throw new Error("Unknown tool")
UnknownTool == Throw(<<"Unknown tool">>)

\* the handler up to its await
CallToolStart(token, req) ==
    LET name == req.name
        a == req.arguments
        boardId == PropStr(a, "boardId")
    IN
    CASE name = "list_boards" -> Send(GetBoardsRequest(token))
      [] name = "create_sticky_note" ->
            IF ~HasArguments(req) THEN NoArguments
            ELSE Send(CreateStickyNoteRequest(token, boardId, StickyNoteBody(a)))
      [] name = "bulk_create_items" ->
            IF ~HasArguments(req) THEN NoArguments
            ELSE Send(BulkCreateItemsRequest(token, boardId, a.items))
      [] name = "get_frames" ->
            IF ~HasArguments(req) THEN NoArguments
            ELSE Send(GetFramesRequest(token, boardId))
      [] name = "get_items_in_frame" ->
            IF ~HasArguments(req) THEN NoArguments
            ELSE Send(GetItemsInFrameRequest(token, boardId, PropStr(a, "frameId")))
      [] name = "create_shape" ->
            IF ~HasArguments(req) THEN NoArguments
            ELSE Send(CreateShapeRequest(token, boardId, ShapeBody(a)))
      [] OTHER -> UnknownTool

BoardLine(b) == Text(<<"Board ID: ">> \o PropStr(b, "id") \o <<", Name: ">> \o PropStr(b, "name"))

\* mutant: the boards are listed in reverse order
ListBoardsContentReversed(boards) ==
    <<Text(<<"Here are the available Miro boards:">>)>>
    \o [i \in 1..Len(boards) |-> BoardLine(boards[Len(boards) + 1 - i])]

\* case "list_boards": the content returned
ListBoardsContent(boards) ==
    <<Text(<<"Here are the available Miro boards:">>)>>
    \o [i \in 1..Len(boards) |-> BoardLine(boards[i])]

\* the handler once the response has arrived
CallToolFinish(req, resp) ==
    LET name == req.name
        a == req.arguments
        boardId == PropStr(a, "boardId")
    IN
    CASE name = "list_boards" ->
            LET boards == GetBoardsResult(resp) IN
            IF boards.threw THEN boards
            ELSE Return([content |-> ListBoardsContent(boards.value)])
      [] name = "create_sticky_note" ->
            LET stickyNote == CreateStickyNoteResult(resp) IN
            IF stickyNote.threw THEN stickyNote
            ELSE Return([content |-> <<Text(<<"Created sticky note ">>
                            \o PropStr(stickyNote.value, "id")
                            \o <<" on board ">> \o boardId)>>])
      [] name = "bulk_create_items" ->
            LET createdItems == BulkCreateItemsResult(resp) IN
            IF createdItems.threw THEN createdItems
            ELSE Return([content |-> <<Text(<<"Created ">>
                            \o NumStr(Len(createdItems.value))
                            \o <<" items on board ">> \o boardId)>>])
      [] name = "get_frames" ->
            LET frames == GetFramesResult(resp) IN
            IF frames.threw THEN frames
            ELSE Return([content |-> <<Text(JsonStringify(frames.value))>>])
      [] name = "get_items_in_frame" ->
            LET items == GetItemsInFrameResult(resp) IN
            IF items.threw THEN items
            ELSE Return([content |-> <<Text(JsonStringify(items.value))>>])
      [] name = "create_shape" ->
            LET shapeItem == CreateShapeResult(resp) IN
            IF shapeItem.threw THEN shapeItem
            ELSE Return([content |-> <<Text(<<"Created ">> \o PropStr(a, "shape")
                            \o <<" shape with ID ">> \o PropStr(shapeItem.value, "id")
                            \o <<" on board ">> \o boardId)>>])

\* dispatch of an inbound request to the handler registered for its method
HandlerStart(token, req) ==
    CASE req.method = "resources/list" -> ListResourcesStart(token)
      [] req.method = "resources/read" -> ReadResourceStart(token, req.uri)
      [] req.method = "tools/call" -> CallToolStart(token, req)

HandlerFinish(req, resp) ==
    CASE req.method = "resources/list" -> ListResourcesFinish(resp)
      [] req.method = "resources/read" -> ReadResourceFinish(req.uri, resp)
      [] req.method = "tools/call" -> CallToolFinish(req, resp)

-----------------------------------------------------------------------------
(* The tool catalog and the input schemas the ListTools handler declares *)

OpacityMin == 0
OpacityMax == 1
BorderWidthMin == 1
BorderWidthMax == 24
FontSizeMin == 10
FontSizeMax == 288

Catalog ==
    {"list_boards", "create_sticky_note", "bulk_create_items", "get_frames",
     "get_items_in_frame", "create_shape"}

Strs(S) == {<<x>> : x \in S}

StickyColors ==
    Strs({"gray", "light_yellow", "yellow", "orange", "light_green", "green",
          "dark_green", "cyan", "light_pink", "pink", "violet", "red", "light_blue",
          "blue", "dark_blue", "black"})

ShapeKinds ==
    Strs({"rectangle", "round_rectangle", "circle", "triangle", "rhombus",
          "parallelogram", "trapezoid", "pentagon", "hexagon", "octagon",
          "wedge_round_rectangle_callout", "star", "flow_chart_predefined_process",
          "cloud", "cross", "can", "right_arrow", "left_arrow", "left_right_arrow",
          "left_brace", "right_brace",
          "flow_chart_connector", "flow_chart_magnetic_disk", "flow_chart_input_output",
          "flow_chart_decision", "flow_chart_delay", "flow_chart_display",
          "flow_chart_document", "flow_chart_magnetic_drum", "flow_chart_internal_storage",
          "flow_chart_manual_input", "flow_chart_manual_operation", "flow_chart_merge",
          "flow_chart_multidocuments", "flow_chart_note_curly_left",
          "flow_chart_note_curly_right", "flow_chart_note_square",
          "flow_chart_offpage_connector", "flow_chart_or",
          "flow_chart_predefined_process_2", "flow_chart_preparation",
          "flow_chart_process", "flow_chart_online_storage",
          "flow_chart_summing_junction", "flow_chart_terminator"})

BorderStyles == Strs({"normal", "dotted", "dashed"})
TextAligns == Strs({"left", "center", "right"})
TextAlignsVertical == Strs({"top", "middle", "bottom"})
ItemTypes ==
    Strs({"app_card", "text", "shape", "sticky_note", "image", "document", "card",
          "frame", "embed"})

\* an optional property obeys "enum" / "minimum" and "maximum"
InEnum(o, k, S) == k \notin DOMAIN o \/ o[k] \in S
InRange(o, k, lo, hi) == k \notin DOMAIN o \/ (o[k] >= lo /\ o[k] <= hi)

Required(o, ks) == ks \subseteq DOMAIN o

StickyNoteSchema(a) ==
    /\ Required(a, {"boardId", "content"})
    /\ InEnum(a, "color", StickyColors)

BulkCreateSchema(a) ==
    /\ Required(a, {"boardId", "items"})
    /\ Len(a.items) >= MinItems
    /\ Len(a.items) <= MaxItems
    /\ \A i \in 1..Len(a.items) :
          Required(a.items[i], {"type"}) /\ InEnum(a.items[i], "type", ItemTypes)

StyleSchema(st) ==
    /\ InRange(st, "borderOpacity", OpacityMin, OpacityMax)
    /\ InEnum(st, "borderStyle", BorderStyles)
    /\ InRange(st, "borderWidth", BorderWidthMin, BorderWidthMax)
    /\ InRange(st, "fillOpacity", OpacityMin, OpacityMax)
    /\ InRange(st, "fontSize", FontSizeMin, FontSizeMax)
    /\ InEnum(st, "textAlign", TextAligns)
    /\ InEnum(st, "textAlignVertical", TextAlignsVertical)

ShapeSchema(a) ==
    /\ Required(a, {"boardId", "shape"})
    /\ InEnum(a, "shape", ShapeKinds)
    /\ "style" \in DOMAIN a => StyleSchema(a.style)

\* the arguments of a tool call obey the inputSchema declared for the tool
SchemaValid(req) ==
    CASE req.name = "list_boards" -> TRUE
      [] req.name = "create_sticky_note" ->
            "arguments" \in DOMAIN req /\ StickyNoteSchema(req.arguments)
      [] req.name = "bulk_create_items" ->
            "arguments" \in DOMAIN req /\ BulkCreateSchema(req.arguments)
      [] req.name = "get_frames" ->
            "arguments" \in DOMAIN req /\ Required(req.arguments, {"boardId"})
      [] req.name = "get_items_in_frame" ->
            "arguments" \in DOMAIN req /\ Required(req.arguments, {"boardId", "frameId"})
      [] req.name = "create_shape" ->
            "arguments" \in DOMAIN req /\ ShapeSchema(req.arguments)
      [] OTHER -> FALSE

-----------------------------------------------------------------------------
(* Inbound requests the transport may deliver *)

B1 == <<"b1">>
F1 == <<"F1">>
F2 == <<"F2">>

\* an optional property: absent, or one of vals
Opt(k, vals) == {Empty} \cup {k :> v : v \in vals}

ToolCall(name, a) == [method |-> "tools/call", name |-> name, arguments |-> a]

StickyNoteArgs ==
    {[boardId |-> B1, content |-> <<"hi">>] @@ c @@ p :
        c \in Opt("color", {<<"blue">>, <<"purple">>}),
        p \in {Empty, [x |-> 0, y |-> 0], [x |-> 5], [y |-> 5]}}
    \cup {[boardId |-> B1], [content |-> <<"hi">>]}

FullGeometry == [width |-> 100, height |-> 50, rotation |-> 90]
PartialGeometry == [width |-> 100]
FullPosition == [x |-> 5, y |-> 7]
PartialPosition == [x |-> 5]

ShapeStyles ==
    {[borderStyle |-> <<"dashed">>, borderWidth |-> 24, fontSize |-> 10, fillOpacity |-> 1],
     [borderStyle |-> <<"wavy">>], [borderWidth |-> 25], [fontSize |-> 9], [fillOpacity |-> 2]}

ShapeArgs ==
    {[boardId |-> B1, shape |-> <<"circle">>] @@ g @@ p :
        g \in Opt("geometry", {FullGeometry, PartialGeometry}),
        p \in Opt("position", {FullPosition, PartialPosition})}
    \cup {[boardId |-> B1, shape |-> <<"circle">>, style |-> st] : st \in ShapeStyles}
    \cup {[boardId |-> B1], [boardId |-> B1, shape |-> <<"blob">>]}

ItemSpec == [type |-> <<"sticky_note">>]

BulkArgs ==
    {[boardId |-> B1, items |-> [i \in 1..n |-> ItemSpec]] :
        n \in {0, MinItems, MinItems + 1, MaxItems, MaxItems + 1}}

ResourceUris ==
    {ResourcePrefix \o B1,
     ResourcePrefix \o B1 \o <<"?", "x=1">>,
     <<"miro:", "//", "frame", "/", "b1">>,
     <<"board", "/", "b1">>}

\* every request shape considered: all argument combinations above
AllRequests ==
    {[method |-> "resources/list"]}
    \cup {[method |-> "resources/read", uri |-> u] : u \in ResourceUris}
    \cup {ToolCall("list_boards", Empty), ToolCall("delete_board", [boardId |-> B1])}
    \cup {ToolCall("create_sticky_note", a) : a \in StickyNoteArgs}
    \cup {ToolCall("bulk_create_items", a) : a \in BulkArgs}
    \cup {ToolCall("get_frames", [boardId |-> B1]),
          [method |-> "tools/call", name |-> "get_frames"]}
    \cup {ToolCall("get_items_in_frame", [boardId |-> B1, frameId |-> f]) : f \in {F1, F2}}
    \cup {ToolCall("create_shape", a) : a \in ShapeArgs}

\* one request per handler path, for runs with several requests
Requests ==
    {[method |-> "resources/list"],
     [method |-> "resources/read", uri |-> ResourcePrefix \o B1],
     [method |-> "resources/read", uri |-> <<"miro:", "//", "frame", "/", "b1">>],
     ToolCall("list_boards", Empty),
     ToolCall("delete_board", [boardId |-> B1]),
     ToolCall("create_sticky_note", [boardId |-> B1, content |-> <<"hi">>]),
     ToolCall("bulk_create_items", [boardId |-> B1, items |-> <<ItemSpec, ItemSpec>>]),
     ToolCall("get_frames", [boardId |-> B1]),
     ToolCall("get_items_in_frame", [boardId |-> B1, frameId |-> F1]),
     ToolCall("create_shape", [boardId |-> B1, shape |-> <<"circle">>])}

-----------------------------------------------------------------------------
(* Responses of the remote service *)

BoardAlpha == [id |-> <<"b1">>, name |-> <<"Alpha">>, description |-> <<"first board">>]
BoardBeta == [id |-> <<"b2">>, name |-> <<"Beta">>]

Boards == {BoardAlpha, BoardBeta}

BoardSeqs == UNION {[1..n -> Boards] : n \in 0..MaxBoards}

FrameItems ==
    <<[id |-> <<"i1">>, type |-> <<"sticky_note">>, parent |-> F1],
      [id |-> <<"i2">>, type |-> <<"shape">>, parent |-> F1]>>

ItemSeqs == {<<>>, <<[id |-> <<"i3">>, type |-> <<"frame">>]>>, FrameItems}

\* what a board may hold: nothing; two items in frame F1 and one in frame F2;
\* one item more in frame F1 than a page of the listing holds
BoardHoldings ==
    {<<>>,
     FrameItems \o <<[id |-> <<"i4">>, type |-> <<"text">>, parent |-> F2]>>,
     [k \in 1..(PageLimit + 1) |->
        [id |-> <<"n", ToString(k)>>, type |-> <<"sticky_note">>, parent |-> F1]]}

\* position of token t in url
IndexOf(url, t) == CHOOSE i \in 1..Len(url) : url[i] = t

\* the value of the parent_item_id parameter of an item listing
ParentParam(url) ==
    SubSeq(url, IndexOf(url, "/items?parent_item_id=") + 1, IndexOf(url, "&limit=") - 1)

RECURSIVE ItemsOfParent(_, _)
\* the items among held whose parent is the given one, in order
ItemsOfParent(held, parent) ==
    IF held = <<>> THEN <<>>
    ELSE (IF "parent" \in DOMAIN Head(held) /\ Head(held).parent = parent
          THEN <<Head(held)>> ELSE <<>>)
         \o ItemsOfParent(Tail(held), parent)

\* the answer of the remote service to GET .../items?parent_item_id=F&limit=50
\* on a board holding held: the first page of the items of parent F, with a
\* cursor when there are more
ItemsPage(held, url) ==
    LET all == ItemsOfParent(held, ParentParam(url)) IN
    IF Len(all) > PageLimit
    THEN [data |-> SubSeq(all, 1, PageLimit), cursor |-> <<"next">>]
    ELSE [data |-> all]

Created(id) == [id |-> id, type |-> <<"item">>]

CreatedItems == {Created(<<"i7">>), Created(<<"i8">>)}

Success(v) == [status |-> 200, statusText |-> <<"OK">>, body |-> <<v>>]

Failures ==
    {[status |-> 401, statusText |-> <<"Unauthorized">>,
      body |-> <<[message |-> <<"Invalid access token">>]>>],
     [status |-> 401, statusText |-> <<"Unauthorized">>, body |-> <<Empty>>],
     [status |-> 401, statusText |-> <<"Unauthorized">>, body |-> <<>>],
     [status |-> 500, statusText |-> <<"Internal Server Error">>,
      body |-> <<[message |-> <<"Something went wrong">>]>>]}

\* what the remote service may answer to the request a handler sent
Responses(req) ==
    Failures \cup
    (CASE req.method = "resources/list" -> {Success([data |-> d]) : d \in BoardSeqs}
       [] req.method = "resources/read" -> {Success([data |-> d]) : d \in ItemSeqs}
       [] req.name = "list_boards" -> {Success([data |-> d]) : d \in BoardSeqs}
       [] req.name = "get_frames" -> {Success([data |-> d]) : d \in ItemSeqs}
       [] req.name = "get_items_in_frame" ->
              {Success(ItemsPage(held, HandlerStart(Absent, req).http.url)) :
                  held \in BoardHoldings}
       [] req.name = "bulk_create_items" ->
              {Success([data |-> [i \in 1..Len(req.arguments.items) |-> Created(<<"i7">>)]]),
               Success(Empty)}
       [] OTHER -> {Success(v) : v \in CreatedItems})

\* every answer considered
AllAnswers == UNION {Responses(req) : req \in AllRequests}

\* the failures and one success per kind of request, for runs with several
\* requests
Answers ==
    Failures
    \cup {Success([data |-> <<BoardAlpha, BoardBeta>>]),
          Success([data |-> FrameItems]),
          Success([data |-> <<Created(<<"i7">>), Created(<<"i7">>)>>]),
          Success(Created(<<"i7">>))}

-----------------------------------------------------------------------------
(* The server process *)

FreeCall == [status |-> "free", req |-> <<>>, http |-> <<>>, resp |-> <<>>, result |-> <<>>]

Init ==
    /\ argvToken \in FlagValues
    /\ envToken \in EnvValues
    /\ oauthToken = Unset
    /\ miroClient = <<>>
    /\ handlers = {}
    /\ phase = "boot"
    /\ exitCode = 0
    /\ calls = [c \in 1..MaxCalls |-> FreeCall]

\* lines 17-23: no token, exit before anything else is set up
StartupExit ==
    /\ phase = "boot"
    /\ ~Truthy(SelectToken(argvToken, envToken))
    /\ oauthToken' = SelectToken(argvToken, envToken)
    /\ phase' = "exited"
    /\ exitCode' = ExitFailure
    /\ UNCHANGED <<argvToken, envToken, miroClient, handlers, calls>>

\* lines 17-401: token found; the client is built and the handlers registered
Startup ==
    /\ phase = "boot"
    /\ Truthy(SelectToken(argvToken, envToken))
    /\ oauthToken' = SelectToken(argvToken, envToken)
    /\ miroClient' = <<[token |-> SelectToken(argvToken, envToken)]>>
    /\ handlers' = {"resources/list", "resources/read", "tools/list", "tools/call"}
    /\ phase' = "connecting"
    /\ UNCHANGED <<argvToken, envToken, exitCode, calls>>

\* main(): server.connect(transport) resolves
Connect ==
    /\ phase = "connecting"
    /\ phase' = "running"
    /\ UNCHANGED <<argvToken, envToken, oauthToken, miroClient, handlers, exitCode, calls>>

\* main().catch: server.connect(transport) rejects
ConnectFail ==
    /\ phase = "connecting"
    /\ phase' = "exited"
    /\ exitCode' = ExitFailure
    /\ UNCHANGED <<argvToken, envToken, oauthToken, miroClient, handlers, calls>>

\* the c-th inbound request, one of reqs, arrives: its handler runs to its
\* await, or throws
Receive(c, reqs) ==
    /\ phase = "running"
    /\ calls[c].status = "free"
    /\ \A d \in 1..(c - 1) : calls[d].status # "free"
    /\ \E req \in reqs :
        /\ req.method \in handlers
        /\ LET s == HandlerStart(miroClient[1].token, req) IN
           calls' = [calls EXCEPT ![c] =
                IF "http" \in DOMAIN s
                THEN [status |-> "awaiting", req |-> <<req>>, http |-> <<s.http>>,
                      resp |-> <<>>, result |-> <<>>]
                ELSE [status |-> "done", req |-> <<req>>, http |-> <<>>, resp |-> <<>>,
                      result |-> <<s>>]]
    /\ UNCHANGED <<argvToken, envToken, oauthToken, miroClient, handlers, phase, exitCode>>

\* mutant: a request that got a non-success response is sent once more
RespondRetry(c, answers) ==
    /\ phase = "running"
    /\ calls[c].status = "awaiting"
    /\ \E resp \in Responses(calls[c].req[1]) \cap answers :
        calls' = [calls EXCEPT ![c] =
            IF ~Ok(resp) /\ Len(calls[c].http) = 1
            THEN [@ EXCEPT !.http = Append(@, calls[c].http[1])]
            ELSE [@ EXCEPT !.status = "done", !.resp = <<resp>>,
                           !.result = <<HandlerFinish(calls[c].req[1], resp)>>]]
    /\ UNCHANGED <<argvToken, envToken, oauthToken, miroClient, handlers, phase, exitCode>>

\* mutant: an error thrown by a handler ends the process
RespondCrash(c, answers) ==
    /\ calls[c].status = "awaiting"
    /\ phase = "running"
    /\ \E resp \in Responses(calls[c].req[1]) \cap answers :
        LET r == HandlerFinish(calls[c].req[1], resp) IN
        /\ calls' = [calls EXCEPT ![c] =
              [@ EXCEPT !.status = "done", !.resp = <<resp>>, !.result = <<r>>]]
        /\ phase' = IF r.threw THEN "exited" ELSE phase
        /\ exitCode' = IF r.threw THEN ExitFailure ELSE exitCode
    /\ UNCHANGED <<argvToken, envToken, oauthToken, miroClient, handlers>>

\* mutant: the response to call c is taken by every call waiting for one
RespondShared(c, answers) ==
    /\ phase = "running"
    /\ calls[c].status = "awaiting"
    /\ \E resp \in Responses(calls[c].req[1]) \cap answers :
        calls' = [d \in 1..MaxCalls |->
            IF calls[d].status = "awaiting"
            THEN [calls[d] EXCEPT !.status = "done", !.resp = <<resp>>,
                                  !.result = <<FetchApiResult(resp)>>]
            ELSE calls[d]]
    /\ UNCHANGED <<argvToken, envToken, oauthToken, miroClient, handlers, phase, exitCode>>

\* the response to the request of call c, one of answers, arrives: its handler
\* resumes and ends
Respond(c, answers) ==
    /\ phase = "running"
    /\ calls[c].status = "awaiting"
    /\ \E resp \in Responses(calls[c].req[1]) \cap answers :
        calls' = [calls EXCEPT ![c] =
            [@ EXCEPT !.status = "done", !.resp = <<resp>>,
                      !.result = <<HandlerFinish(calls[c].req[1], resp)>>]]
    /\ UNCHANGED <<argvToken, envToken, oauthToken, miroClient, handlers, phase, exitCode>>

Next ==
    \/ StartupExit
    \/ Startup
    \/ Connect
    \/ ConnectFail
    \/ \E c \in 1..MaxCalls : Receive(c, Requests)
    \/ \E c \in 1..MaxCalls : Respond(c, Answers)

\* the server handling up to MaxCalls requests, which may overlap
Spec == Init /\ [][Next]_vars

NextCall ==
    \/ StartupExit
    \/ Startup
    \/ Connect
    \/ ConnectFail
    \/ Receive(1, AllRequests)
    \/ Respond(1, AllAnswers)

\* the server handling one request, of any shape and with any answer
SpecCall == Init /\ [][NextCall]_vars

-----------------------------------------------------------------------------
(* Properties *)

Arrived == {c \in 1..MaxCalls : calls[c].status # "free"}
Done == {c \in 1..MaxCalls : calls[c].status = "done"}
ReqOf(c) == calls[c].req[1]
ArgsOf(c) == ReqOf(c).arguments
ToolCalls(name) ==
    {c \in Arrived : ReqOf(c).method = "tools/call" /\ ReqOf(c).name = name}

\* call c ended with an error / with a value
Failed(c) == calls[c].status = "done" /\ calls[c].result[1].threw
Succeeded(c) == calls[c].status = "done" /\ ~calls[c].result[1].threw

\* call c was refused before any request was sent
Rejected(c) == Failed(c) /\ calls[c].http = <<>>

\* property k of object o is present with value v
Has(o, k, v) == k \in DOMAIN o /\ o[k] = v

\* C1 (as claimed): a bulk_create_items call with 0 or more than 20 items fails
\* without any HTTP request; one with 1 to 20 items sends its request.
C1_BulkSizeChecked ==
    \A c \in ToolCalls("bulk_create_items") :
        IF Len(ArgsOf(c).items) >= MinItems /\ Len(ArgsOf(c).items) <= MaxItems
        THEN Len(calls[c].http) = 1
        ELSE Rejected(c)

\* C2 (as claimed): whenever the remote service answers 401, the call fails
\* with an error whose message includes the status code.
C2_Status401InMessage ==
    \A c \in Done :
        (calls[c].resp # <<>> /\ calls[c].resp[1].status = 401)
            => (Failed(c) /\ Contains(calls[c].result[1].message, NumStr(401)))

\* C3: every call that reaches the client has sent exactly one HTTP request,
\* while it waits and after any outcome; a call refused before sends none.
C3_OneRequestPerCall ==
    \A c \in Arrived :
        /\ calls[c].status = "awaiting" => Len(calls[c].http) = 1
        /\ calls[c].resp # <<>> => Len(calls[c].http) = 1
        /\ Len(calls[c].http) <= 1

C3_Witness ==
    \E c \in ToolCalls("bulk_create_items") :
        /\ Len(ArgsOf(c).items) > 1
        /\ Failed(c)
        /\ ~Ok(calls[c].resp[1])
        /\ Len(calls[c].http) = 1

\* C4: a tool call whose name is not in the catalog fails with the fixed
\* "Unknown tool" error, sends no HTTP request, and the process keeps running.
C4_UnknownToolFails ==
    \A c \in Arrived :
        (ReqOf(c).method = "tools/call" /\ ReqOf(c).name \notin Catalog)
            => /\ Rejected(c)
               /\ calls[c].result[1].message = <<"Unknown tool">>
               /\ phase = "running"
               /\ exitCode = 0

C4_Witness ==
    \E c \in Arrived :
        /\ ReqOf(c).method = "tools/call"
        /\ ReqOf(c).name = "delete_board"
        /\ Failed(c)

\* C5: after a failed call the process is still running, the next request is
\* accepted, and every call is processed from its own request and response
\* alone, whatever failed before it.
C5_FailureLeavesServerRunning ==
    /\ (\E c \in Arrived : Failed(c)) => (phase = "running" /\ exitCode = 0)
    /\ \A c \in 1..MaxCalls :
          (phase = "running" /\ calls[c].status = "free"
             /\ (\A d \in 1..(c - 1) : calls[d].status # "free"))
            => ENABLED Receive(c, Requests)
    /\ \A c \in Arrived :
          LET s == HandlerStart(oauthToken, ReqOf(c)) IN
          /\ calls[c].http = (IF "http" \in DOMAIN s THEN <<s.http>> ELSE <<>>)
          /\ calls[c].status = "done" =>
                calls[c].result[1] =
                    (IF calls[c].resp = <<>> THEN s
                     ELSE HandlerFinish(ReqOf(c), calls[c].resp[1]))

C5_Witness ==
    \E c, d \in Arrived : c < d /\ Failed(c) /\ calls[c].resp # <<>> /\ Succeeded(d)

\* C6 (as claimed): a tool call whose arguments violate the declared schema
\* fails and sends no HTTP request.
C6_SchemaEnforced ==
    \A c \in Arrived :
        (ReqOf(c).method = "tools/call" /\ ReqOf(c).name \in Catalog /\ ~SchemaValid(ReqOf(c)))
            => Rejected(c)

\* the body of the one request call c sent
BodyOf(c) == calls[c].http[1].body

\* the text of the single content item call c returned
TextOf(c) == calls[c].result[1].value.content[1].text

\* C7: create_sticky_note sends color "yellow" when none is supplied and x, y
\* as 0 when not supplied, supplied values unchanged; on success the text
\* returned contains the id the remote service reported and the board id.
C7_StickyNoteDefaults ==
    \A c \in ToolCalls("create_sticky_note") :
        LET a == ArgsOf(c) IN
        /\ Len(calls[c].http) = 1
        /\ Has(BodyOf(c).style, "fillColor",
               IF "color" \in DOMAIN a THEN a.color ELSE <<"yellow">>)
        /\ Has(BodyOf(c).position, "x", IF "x" \in DOMAIN a THEN a.x ELSE 0)
        /\ Has(BodyOf(c).position, "y", IF "y" \in DOMAIN a THEN a.y ELSE 0)
        /\ (calls[c].status = "done" /\ Ok(calls[c].resp[1]))
             => /\ Succeeded(c)
                /\ Contains(TextOf(c), calls[c].resp[1].body[1].id)
                /\ "boardId" \in DOMAIN a => Contains(TextOf(c), a.boardId)

C7_Witness ==
    \E c \in ToolCalls("create_sticky_note") :
        /\ DOMAIN ArgsOf(c) = {"boardId", "content"}
        /\ Has(BodyOf(c).style, "fillColor", <<"yellow">>)
        /\ Succeeded(c)

\* C8 (as claimed): create_shape sends width 200, height 200 and rotation 0
\* for each of these the caller omitted, x 0 and y 0 for each omitted, also
\* when a geometry or position object is given with only some fields; and an
\* omitted shape kind is sent as "rectangle".
C8_ShapeDefaultsPerField ==
    \A c \in ToolCalls("create_shape") :
        LET a == ArgsOf(c)
            g == IF "geometry" \in DOMAIN a THEN a.geometry ELSE Empty
            p == IF "position" \in DOMAIN a THEN a.position ELSE Empty
        IN
        /\ Len(calls[c].http) = 1
        /\ "width" \notin DOMAIN g => Has(BodyOf(c).geometry, "width", DefaultWidth)
        /\ "height" \notin DOMAIN g => Has(BodyOf(c).geometry, "height", DefaultHeight)
        /\ "rotation" \notin DOMAIN g => Has(BodyOf(c).geometry, "rotation", DefaultRotation)
        /\ "x" \notin DOMAIN p => Has(BodyOf(c).position, "x", DefaultX)
        /\ "y" \notin DOMAIN p => Has(BodyOf(c).position, "y", DefaultY)
        /\ "shape" \notin DOMAIN a => Has(BodyOf(c).data, "shape", <<"rectangle">>)

\* C9: on a successful board listing, list_boards returns one line per board
\* reported, in the order reported, each holding that board's id and name.
C9_ListBoardsExact ==
    \A c \in ToolCalls("list_boards") :
        (calls[c].status = "done" /\ Ok(calls[c].resp[1])) =>
            LET boards == calls[c].resp[1].body[1].data
                content == calls[c].result[1].value.content
            IN
            /\ Succeeded(c)
            /\ Len(content) = Len(boards) + 1
            /\ \A i \in 1..Len(boards) :
                  /\ content[i + 1].type = "text"
                  /\ Contains(content[i + 1].text, boards[i].id)
                  /\ Contains(content[i + 1].text, boards[i].name)
                  /\ \A b \in Boards :
                        Contains(content[i + 1].text, b.id) => b.id = boards[i].id

C9_Witness ==
    \E c \in ToolCalls("list_boards") :
        /\ Succeeded(c)
        /\ Len(calls[c].resp[1].body[1].data) = MaxBoards
        /\ calls[c].resp[1].body[1].data[1] # calls[c].resp[1].body[1].data[MaxBoards]

\* C10 (as claimed): the credential is the flag whenever the flag is given,
\* otherwise the environment variable; with neither the process exits nonzero
\* with no handler registered, and no request is processed without one.
C10_FlagGivenWins ==
    phase # "boot" =>
        /\ argvToken # Absent => oauthToken = argvToken
        /\ (argvToken = Absent /\ envToken # Absent) => oauthToken = envToken
        /\ (argvToken = Absent /\ envToken = Absent)
              => (phase = "exited" /\ exitCode # 0 /\ handlers = {})
        /\ Arrived # {} => oauthToken # Absent

\* C10 (amended): the credential is the flag when the flag is given and not
\* empty, otherwise the environment variable; when neither holds a non-empty
\* value the process exits nonzero with no handler registered and no client,
\* and no request is ever processed without a non-empty credential.
C10_NonEmptyFlagWins ==
    /\ phase # "boot" =>
        /\ Truthy(argvToken) => oauthToken = argvToken
        /\ (~Truthy(argvToken) /\ Truthy(envToken)) => oauthToken = envToken
        /\ (~Truthy(argvToken) /\ ~Truthy(envToken))
              => (phase = "exited" /\ exitCode # 0 /\ handlers = {} /\ miroClient = <<>>)
    /\ (handlers # {} \/ Arrived # {}) =>
          (Truthy(oauthToken) /\ miroClient = <<[token |-> oauthToken]>>)

C10_Witness ==
    /\ argvToken = "tokA"
    /\ envToken = "tokB"
    /\ oauthToken = "tokA"
    /\ Arrived # {}

\* C11: once chosen at startup the credential never changes: the constant and
\* the client's token both equal the value selected from flag and environment
\* in every later state, after successes and failures alike; and every HTTP
\* request sent carries "Bearer " followed by exactly that credential.
C11_CredentialFixedAndSent ==
    phase \in {"connecting", "running"} =>
        /\ oauthToken = SelectToken(argvToken, envToken)
        /\ miroClient = <<[token |-> oauthToken]>>
        /\ \A c \in Arrived : \A i \in 1..Len(calls[c].http) :
              Has(calls[c].http[i].headers, "Authorization", <<"Bearer ", oauthToken>>)

C11_Witness ==
    \E c, d \in Arrived :
        /\ c < d
        /\ Failed(c)
        /\ calls[c].resp # <<>>
        /\ ReqOf(d).method = "tools/call"
        /\ ReqOf(d).name = "bulk_create_items"
        /\ Len(calls[d].http) = 1
        /\ calls[d].http[1].headers.Authorization = <<"Bearer ", oauthToken>>

\* the frameId argument of call c
FrameOf(c) == ArgsOf(c).frameId

\* the board holdings under which the remote service gives the answer call c got
HoldingsOf(c) ==
    {held \in BoardHoldings :
        calls[c].resp[1] = Success(ItemsPage(held, calls[c].http[1].url))}

\* C12 (as claimed): on success get_items_in_frame returns exactly the items
\* the board holds whose parent is frameId: none other, and all of them.
C12_AllItemsOfFrame ==
    \A c \in ToolCalls("get_items_in_frame") :
        Succeeded(c) =>
            \A held \in HoldingsOf(c) :
                TextOf(c) = JsonStringify(ItemsOfParent(held, FrameOf(c)))

\* the calls whose HTTP request is in flight
InFlight == {c \in 1..MaxCalls : calls[c].status = "awaiting"}

\* C13 (as claimed): requests are processed strictly one at a time: a request
\* is handled only after every earlier one has ended, and no two calls have an
\* HTTP request in flight at the same time.
C13_OneAtATime ==
    /\ \A c, d \in Arrived : c < d => calls[c].status = "done"
    /\ Cardinality(InFlight) <= 1

\* C13 (amended): handlers start in order of arrival, but a later call may
\* start while an earlier one still awaits its response; every pending call
\* has exactly one request in flight, a call that has ended has none, and each
\* call ends on an answer to its own request.
C13_OverlapOnePerCall ==
    /\ \A c \in Arrived : \A d \in 1..(c - 1) : d \in Arrived
    /\ \A c \in Arrived :
          /\ Len(calls[c].http) - Len(calls[c].resp) = (IF c \in InFlight THEN 1 ELSE 0)
          /\ calls[c].resp # <<>> => calls[c].resp[1] \in Responses(ReqOf(c))

C13_Witness ==
    \E c, d \in InFlight :
        /\ c < d
        /\ calls[c].http[1].url # calls[d].http[1].url

\* the response call c got is a non-success one whose body carries a message
RemoteErrorOf(c) ==
    IF /\ calls[c].resp # <<>>
       /\ ~Ok(calls[c].resp[1])
       /\ calls[c].resp[1].body # <<>>
       /\ "message" \in DOMAIN calls[c].resp[1].body[1]
    THEN <<calls[c].resp[1].body[1].message>>
    ELSE <<>>

\* C14 (as claimed): a call answered with a non-success response whose body
\* carries an error message fails with an error that contains both the HTTP
\* status and that message.
C14_StatusAndRemoteMessage ==
    \A c \in Done :
        RemoteErrorOf(c) # <<>> =>
            /\ Failed(c)
            /\ Contains(calls[c].result[1].message, NumStr(calls[c].resp[1].status))
            /\ Contains(calls[c].result[1].message, RemoteErrorOf(c)[1])

InvalidUri == <<"Invalid Miro resource URI - must start with miro://board/">>

ReadCalls == {c \in Arrived : ReqOf(c).method = "resources/read"}
ListCalls == {c \in Arrived : ReqOf(c).method = "resources/list"}

\* the boards the remote service reported to the listing call c
ReportedBoards(c) == calls[c].resp[1].body[1].data

\* the read of uri fetches the items of the board boardId and returns what
\* the remote service answers, serialised
ReadsBoard(uri, boardId) ==
    /\ ReadResourceStart(oauthToken, uri) = Send(GetBoardItemsRequest(oauthToken, boardId))
    /\ \A items \in ItemSeqs :
          LET read == ReadResourceFinish(uri, Success([data |-> items])) IN
          /\ ~read.threw
          /\ Len(read.value.contents) = 1
          /\ read.value.contents[1].text = JsonStringify(items)

\* C15 (as claimed): the URI listed for every reported board, when read,
\* fetches the items of exactly that board and returns them serialised; a read
\* of a URI that does not start with miro://board/ fails with the invalid-URI
\* error and sends no HTTP request.
C15_ListReadRoundTrip ==
    /\ \A c \in ListCalls : Succeeded(c) =>
          /\ Len(calls[c].result[1].value.resources) = Len(ReportedBoards(c))
          /\ \A i \in 1..Len(ReportedBoards(c)) :
                ReadsBoard(calls[c].result[1].value.resources[i].uri, ReportedBoards(c)[i].id)
    /\ \A c \in ReadCalls :
          IF StartsWith(ReqOf(c).uri, ResourcePrefix)
          THEN /\ Len(calls[c].http) = 1
               /\ Succeeded(c) =>
                     calls[c].result[1].value.contents[1].text
                         = JsonStringify(calls[c].resp[1].body[1].data)
          ELSE /\ Rejected(c)
               /\ calls[c].result[1].message = InvalidUri

====
